---- MODULE Spec2Model ----
(***************************************************************************)
(* sureOS early boot: the Multiboot2 boot-information walk                 *)
(* (src/impl/kernel/multiboot2.c, check_multiboot2) and the default        *)
(* exception handlers (src/impl/x86_64/exception.c, exception_defaults).   *)
(*                                                                         *)
(* Numbers.  TLC's integers are 32-bit signed, the program's are unsigned  *)
(* 32-bit words and 64-bit pointers.  A number is therefore held as a pair *)
(* <<hi, lo>> in base 65536: a u32 has hi < 65536; a pointer offset (the   *)
(* distance of a 64-bit pointer from addr) has an unbounded hi.            *)
(***************************************************************************)
EXTENDS Integers, Sequences, FiniteSets, TLC

--------------------------------------------------------------------------
(* Bounds of the model *)

\* Tags (before the End tag) in an input boot-information stream.
MaxTags == 2
\* Lines the diagnostic sink keeps; later lines are dropped.
MaxOut == 16
\* Calls of exception_defaults in one run.
MaxInstalls == 2

--------------------------------------------------------------------------
(* Words and pointer offsets *)

W(n) == <<n \div 65536, n % 65536>>

\* a + b without wrap: pointer arithmetic on a 64-bit pointer.
WAdd(a, b) ==
  LET lo == a[2] + b[2]
  IN  <<a[1] + b[1] + (lo \div 65536), lo % 65536>>

\* a < b
WLess(a, b) == a[1] < b[1] \/ (a[1] = b[1] /\ a[2] < b[2])

WLeq(a, b) == a = b \/ WLess(a, b)

\* unsigned int addition: the sum modulo 2^32.
Add32(a, b) ==
  LET s == WAdd(a, b)
  IN  <<s[1] % 65536, s[2]>>

\* ~a on a 32-bit word.
Not32(a) == <<65535 - a[1], 65535 - a[2]>>

RECURSIVE BitAnd(_, _)
BitAnd(x, y) ==
  IF x = 0 \/ y = 0 THEN 0
  ELSE (x % 2) * (y % 2) + 2 * BitAnd(x \div 2, y \div 2)

And32(a, b) == <<BitAnd(a[1], b[1]), BitAnd(a[2], b[2])>>

\* A faulty variant of PaddedSize: rounds down instead of up.
PaddedSizeDown(s) == And32(s, Not32(W(7)))

\* (tag->size + 7) & ~7, in unsigned int.
PaddedSize(s) == And32(Add32(s, W(7)), Not32(W(7)))

--------------------------------------------------------------------------
(* Program constants of boot/multiboot2.h, with the values of the          *)
(* Multiboot2 protocol                                                     *)

MULTIBOOT2_BOOTLOADER_MAGIC == 920085129    \* 0x36d76289

MULTIBOOT_TAG_TYPE_END == 0
MULTIBOOT_TAG_TYPE_CMDLINE == 1
MULTIBOOT_TAG_TYPE_BOOT_LOADER_NAME == 2
MULTIBOOT_TAG_TYPE_MODULE == 3
MULTIBOOT_TAG_TYPE_BASIC_MEMINFO == 4
MULTIBOOT_TAG_TYPE_BOOTDEV == 5
MULTIBOOT_TAG_TYPE_MMAP == 6

\* Byte offsets of the members the walk reads.
\* struct multiboot_tag { u32 type; u32 size; }
\* struct multiboot_tag_string { type; size; char string[0]; }
\* struct multiboot_tag_module { type; size; u32 mod_start; u32 mod_end; char cmdline[0]; }
\* struct multiboot_tag_basic_meminfo { type; size; u32 mem_lower; u32 mem_upper; }
\* struct multiboot_tag_bootdev { type; size; u32 biosdev; u32 slice; u32 part; }
\* struct multiboot_tag_mmap { type; size; u32 entry_size; u32 entry_version; entries[0]; }
\* struct multiboot_mmap_entry { u64 addr; u64 len; u32 type; u32 zero; }
TagHeaderBytes == 8
MmapEntriesOffset == 16

--------------------------------------------------------------------------
(* The boot information as the bootloader lays it out (little-endian)      *)

LE32(u) == <<u[2] % 256, u[2] \div 256, u[1] % 256, u[1] \div 256>>

\* A u64 is <<high word, low word>>.
LE64(q) == LE32(q[2]) \o LE32(q[1])

Zeros(n) == [i \in 1..n |-> 0]

Pad8(b) == b \o Zeros((8 - (Len(b) % 8)) % 8)

RECURSIVE Concat(_)
Concat(ss) == IF ss = <<>> THEN <<>> ELSE Head(ss) \o Concat(Tail(ss))

\* A tag of the input: its header words, the bytes after the header, and the
\* lines a faithful decoding of it reports after the "Tag" line.
StringTag(type, fmt, str) ==
  [type |-> W(type), size |-> W(TagHeaderBytes + Len(str) + 1),
   body |-> str \o <<0>>,
   lines |-> << <<fmt, str>> >>]

ModuleTag(start, end, str) ==
  [type |-> W(MULTIBOOT_TAG_TYPE_MODULE), size |-> W(16 + Len(str) + 1),
   body |-> LE32(start) \o LE32(end) \o str \o <<0>>,
   lines |-> << <<"Module at 0x%x-0x%x. Command line %s\n", start, end, str>> >>]

MeminfoTag(lower, upper) ==
  [type |-> W(MULTIBOOT_TAG_TYPE_BASIC_MEMINFO), size |-> W(16),
   body |-> LE32(lower) \o LE32(upper),
   lines |-> << <<"mem_lower = %uKB, mem_upper = %uKB\n", lower, upper>> >>]

BootdevTag(biosdev, slice, part) ==
  [type |-> W(MULTIBOOT_TAG_TYPE_BOOTDEV), size |-> W(20),
   body |-> LE32(biosdev) \o LE32(slice) \o LE32(part),
   lines |-> << <<"Boot device 0x%x,%u,%u\n", biosdev, slice, part>> >>]

\* One memory-map entry [addr, len, type] packed into a slot of esize bytes.
EntryBytes(e, esize) ==
  LET raw == LE64(e.addr) \o LE64(e.len) \o LE32(e.type) \o LE32(W(0))
  IN  IF esize >= Len(raw) THEN raw \o Zeros(esize - Len(raw))
      ELSE SubSeq(raw, 1, esize)

EntryLine(e) ==
  <<" base_addr = 0x%x%x, length = 0x%x%x, type = 0x%x\n",
    e.addr[1], e.addr[2], e.len[1], e.len[2], e.type>>

\* A memory map of Len(entries) entries packed at stride esize.
MmapTag(esize, entries) ==
  [type |-> W(MULTIBOOT_TAG_TYPE_MMAP),
   size |-> W(MmapEntriesOffset + Len(entries) * esize),
   body |-> LE32(W(esize)) \o LE32(W(0))
            \o Concat([i \in 1..Len(entries) |-> EntryBytes(entries[i], esize)]),
   lines |-> << <<"mmap\n">> >> \o [i \in 1..Len(entries) |-> EntryLine(entries[i])]]

\* A tag of a type the walk has no case for.
OpaqueTag(type, payload) ==
  [type |-> W(type), size |-> W(TagHeaderBytes + Len(payload)),
   body |-> payload, lines |-> <<>>]

\* A tag whose header lies about its extent.
RawTag(type, size, body) ==
  [type |-> W(type), size |-> size, body |-> body, lines |-> <<>>]

EndTag == [type |-> W(MULTIBOOT_TAG_TYPE_END), size |-> W(TagHeaderBytes),
           body |-> <<>>, lines |-> <<>>]

TagBytes(t) == Pad8(LE32(t.type) \o LE32(t.size) \o t.body)

StreamBytes(tags) == Concat([i \in 1..Len(tags) |-> TagBytes(tags[i])])

\* The structure: total_size at 0, reserved at 4, the tags from 8.
Image(declared, tags) == LE32(declared) \o LE32(W(0)) \o StreamBytes(tags)

--------------------------------------------------------------------------
(* Inputs of check_multiboot2 *)

Str(c) == <<c>>

U64(hi, lo) == <<hi, lo>>

Entry1 == [addr |-> U64(W(0), W(0)), len |-> U64(W(0), W(654336)), type |-> W(1)]
Entry2 == [addr |-> U64(W(1), <<65535, 4096>>), len |-> U64(<<32768, 7>>, W(0)), type |-> W(2)]

\* Tags a bootloader produces.
GoodTags ==
  { StringTag(MULTIBOOT_TAG_TYPE_CMDLINE, "Command line = %s\n", Str(120)),
    StringTag(MULTIBOOT_TAG_TYPE_BOOT_LOADER_NAME, "Boot loader name = %s\n", <<97, 98>>),
    ModuleTag(W(1048576), <<16, 4660>>, Str(109)),
    MeminfoTag(W(639), <<65535, 65535>>),
    BootdevTag(W(128), <<65535, 65535>>, W(3)),
    MmapTag(24, <<Entry1, Entry2>>),
    MmapTag(40, <<Entry2>>),
    MmapTag(24, <<>>),
    OpaqueTag(21, <<1, 2, 3, 4>>) }

\* Tags a faulty or hostile bootloader may produce.
BadTags ==
  { \* a non-End tag of size 0
    RawTag(MULTIBOOT_TAG_TYPE_CMDLINE, W(0), <<>>),
    \* a memory map with entry_size 0
    RawTag(MULTIBOOT_TAG_TYPE_MMAP, W(40),
           LE32(W(0)) \o LE32(W(0)) \o EntryBytes(Entry1, 24)),
    \* a size in the top 7 values of unsigned int
    RawTag(21, <<65535, 65529>>, <<>>),
    \* an extent that leaves the structure
    RawTag(21, W(4096), <<>>) }

SeqsUpTo(S, n) == UNION {[1..k -> S] : k \in 0..n}

\* An input: the tags before End, whether End follows, the tags after it,
\* and the total_size the header declares.
TrueTotal(tags) == W(TagHeaderBytes + Len(StreamBytes(tags)))

Input(body, hasEnd, trailer, declared) ==
  [body |-> body, hasEnd |-> hasEnd, trailer |-> trailer, declared |-> declared]

WellFormedInputs ==
  { Input(b, TRUE, t, TrueTotal(b \o <<EndTag>>)) :
      b \in SeqsUpTo(GoodTags, MaxTags),
      t \in {<<>>, <<StringTag(MULTIBOOT_TAG_TYPE_CMDLINE, "Command line = %s\n", Str(122))>>} }

MalformedInputs ==
  \* a tag that lies about its extent
  { Input(b, TRUE, <<>>, TrueTotal(b \o <<EndTag>>)) :
      b \in {x \in SeqsUpTo(GoodTags \cup BadTags, MaxTags) :
               \E i \in 1..Len(x) : x[i] \in BadTags} }
  \cup
  \* total_size smaller than the stream
  { Input(b, TRUE, <<>>, d) :
      b \in SeqsUpTo(GoodTags, MaxTags) \ {<<>>}, d \in {W(8), W(16)} }
  \cup
  \* no End tag
  { Input(b, FALSE, <<>>, TrueTotal(b)) : b \in SeqsUpTo(GoodTags, MaxTags) }

Inputs == WellFormedInputs \cup MalformedInputs

InputTags(in) == in.body \o (IF in.hasEnd THEN <<EndTag>> ELSE <<>>) \o in.trailer

InputImage(in) == Image(in.declared, InputTags(in))

WellFormed(in) ==
  /\ in.hasEnd
  /\ \A i \in 1..Len(in.body) : in.body[i] \in GoodTags
  /\ in.declared = TrueTotal(in.body \o <<EndTag>>)

Magics == {MULTIBOOT2_BOOTLOADER_MAGIC, 732803074}

Addrs == {1048576, 1048577, 1048580, 1048582, 1048584}

--------------------------------------------------------------------------
(* State *)

VARIABLES
  \* check_multiboot2
  magic,      \* the magic argument
  addr,       \* the addr argument
  mem,        \* the bytes at addr, addr+1, ...
  input,      \* what mem was laid out from (not read by the program)
  pc,         \* "entry", "walk", "mmap", "tail", "done", "halt", "stray"
  size,       \* the announced size read at addr
  tag,        \* the tag pointer, as its distance from addr
  mmap,       \* the memory-map entry pointer, as its distance from addr
  out,        \* the printf/panicf calls made, in order
  reads,      \* distances from addr at which total_size or a tag header was read
  visited,    \* distances from addr of the entries read in the current memory map
  beat,       \* flips at every step the processor takes in check_multiboot2
  \* the exception handlers
  plugbox,    \* vector -> the handler assigned to it, or NoHandler
  installs,   \* calls of exception_defaults so far
  assigned,   \* vectors assigned by other callers of plugbox_assign
  disp,       \* the last dispatch and what it did
  \* the padding law on its own
  padIn, padOut

bootVars == <<magic, addr, mem, input, pc, size, tag, mmap, out, reads, visited, beat>>
excVars == <<plugbox, installs, assigned, disp>>
padVars == <<padIn, padOut>>
vars == <<bootVars, excVars, padVars>>

--------------------------------------------------------------------------
(* Reading the boot information *)

\* n bytes at distance p from addr lie in the modelled memory.
InMem(p, n) == p[1] = 0 /\ p[2] + n <= Len(mem)

Byte(i) == mem[i + 1]

\* *(multiboot_uint32_t *)(addr + p)
Read32(p) ==
  <<Byte(p[2] + 3) * 256 + Byte(p[2] + 2), Byte(p[2] + 1) * 256 + Byte(p[2])>>

\* *(multiboot_uint64_t *)(addr + p), as <<high word, low word>>
Read64(p) == <<Read32(WAdd(p, W(4))), Read32(p)>>

\* The bytes from index i up to the terminating NUL: what %s prints.
RECURSIVE StrFrom(_)
StrFrom(i) ==
  IF i >= Len(mem) \/ Byte(i) = 0 THEN <<>> ELSE <<Byte(i)>> \o StrFrom(i + 1)

\* The string at distance p is terminated inside the modelled memory.
StrInMem(p) == p[1] = 0 /\ p[2] + Len(StrFrom(p[2])) < Len(mem)

StrAt(p) == StrFrom(p[2])

\* (unsigned)(q >> 32) and (unsigned)(q & 0xffffffff) of a u64
High32(q) == q[1]
Low32(q) == q[2]

\* (unsigned) n of an unsigned long given as a natural number
ToU32(n) == <<(n \div 65536) % 65536, n % 65536>>

\* The sink drops what does not fit.
Emit(log, lines) ==
  IF Len(log) + Len(lines) <= MaxOut THEN log \o lines
  ELSE SubSeq(log \o lines, 1, MaxOut)

\* panicf(fmt, arg): reports and halts.
panicf(fmt, arg) ==
  /\ out' = Emit(out, << <<fmt, arg>> >>)
  /\ pc' = "halt"
  /\ UNCHANGED <<size, tag, mmap, reads, visited>>

\* A read outside the modelled memory: what follows depends on bytes the
\* model does not hold.
Stray ==
  /\ pc' = "stray"
  /\ UNCHANGED <<size, tag, mmap, out, reads, visited>>

\* A faulty variant of Misaligned: tests 4-byte alignment.
MisalignedLow2(a) == BitAnd(a, 3) # 0

\* addr & 7
Misaligned(a) == BitAnd(a, 7) # 0

\* Lines 8-18: the two checks, the announced size, the first tag.
Entry ==
  /\ pc = "entry"
  /\ IF magic # MULTIBOOT2_BOOTLOADER_MAGIC
       THEN panicf("Invalid magic number: 0x%x\n", ToU32(magic))
     ELSE IF Misaligned(addr)
       THEN panicf("Unaligned mbi: 0x%x\n", addr)
     ELSE IF ~InMem(W(0), 4)
       THEN Stray
     ELSE /\ size' = Read32(W(0))
          /\ reads' = reads \cup {W(0)}
          /\ out' = Emit(out, << <<"Announced mbi size 0x%x\n", Read32(W(0))>> >>)
          /\ tag' = W(8)
          /\ pc' = "walk"
          /\ UNCHANGED <<mmap, visited>>
  /\ beat' = ~beat
  /\ UNCHANGED <<magic, addr, mem, input, excVars, padVars>>

\* The members of the tag at distance t, at their offsets in the struct.
TagType(t) == Read32(t)
TagSize(t) == Read32(WAdd(t, W(4)))
MmapEntrySize(t) == Read32(WAdd(t, W(8)))

IsType(t, type) == TagType(t) = W(type)

\* The switch of lines 23-66 for the tag at t, but for the memory-map loop:
\* whether what it reads lies in the modelled memory, and the lines it prints.
CaseInMem(t) ==
  IF IsType(t, MULTIBOOT_TAG_TYPE_CMDLINE) \/ IsType(t, MULTIBOOT_TAG_TYPE_BOOT_LOADER_NAME)
    THEN StrInMem(WAdd(t, W(8)))
  ELSE IF IsType(t, MULTIBOOT_TAG_TYPE_MODULE)
    THEN InMem(t, 16) /\ StrInMem(WAdd(t, W(16)))
  ELSE IF IsType(t, MULTIBOOT_TAG_TYPE_BASIC_MEMINFO)
    THEN InMem(t, 16)
  ELSE IF IsType(t, MULTIBOOT_TAG_TYPE_BOOTDEV)
    THEN InMem(t, 20)
  ELSE TRUE

CaseLines(t) ==
  IF IsType(t, MULTIBOOT_TAG_TYPE_CMDLINE)
    THEN << <<"Command line = %s\n", StrAt(WAdd(t, W(8)))>> >>
  ELSE IF IsType(t, MULTIBOOT_TAG_TYPE_BOOT_LOADER_NAME)
    THEN << <<"Boot loader name = %s\n", StrAt(WAdd(t, W(8)))>> >>
  ELSE IF IsType(t, MULTIBOOT_TAG_TYPE_MODULE)
    THEN << <<"Module at 0x%x-0x%x. Command line %s\n",
              Read32(WAdd(t, W(8))), Read32(WAdd(t, W(12))), StrAt(WAdd(t, W(16)))>> >>
  ELSE IF IsType(t, MULTIBOOT_TAG_TYPE_BASIC_MEMINFO)
    THEN << <<"mem_lower = %uKB, mem_upper = %uKB\n",
              Read32(WAdd(t, W(8))), Read32(WAdd(t, W(12)))>> >>
  ELSE IF IsType(t, MULTIBOOT_TAG_TYPE_BOOTDEV)
    THEN << <<"Boot device 0x%x,%u,%u\n",
              Read32(WAdd(t, W(8))), Read32(WAdd(t, W(12))), Read32(WAdd(t, W(16)))>> >>
  ELSE IF IsType(t, MULTIBOOT_TAG_TYPE_MMAP)
    THEN << <<"mmap\n">> >>
  ELSE <<>>

\* The loop's increment, line 20: tag + ((tag->size + 7) & ~7).
NextTag(t) == WAdd(t, PaddedSize(TagSize(t)))

\* One pass of the loop of lines 18-67: the test of line 19, the body, and,
\* unless the body is the memory-map loop, the increment of line 20.
TagStep ==
  /\ pc = "walk"
  /\ IF ~InMem(tag, 8)
       THEN Stray
     ELSE IF IsType(tag, MULTIBOOT_TAG_TYPE_END)
       THEN /\ pc' = "tail"
            /\ reads' = reads \cup {tag}
            /\ UNCHANGED <<size, tag, mmap, out, visited>>
     ELSE IF ~CaseInMem(tag)
       THEN /\ pc' = "stray"
            /\ reads' = reads \cup {tag}
            /\ out' = Emit(out, << <<"Tag 0x%x, Size 0x%x\n", TagType(tag), TagSize(tag)>> >>)
            /\ UNCHANGED <<size, tag, mmap, visited>>
     ELSE /\ reads' = reads \cup {tag}
          /\ out' = Emit(out, << <<"Tag 0x%x, Size 0x%x\n", TagType(tag), TagSize(tag)>> >>
                              \o CaseLines(tag))
          /\ IF IsType(tag, MULTIBOOT_TAG_TYPE_MMAP)
               THEN /\ mmap' = WAdd(tag, W(MmapEntriesOffset))
                    /\ visited' = <<>>
                    /\ pc' = "mmap"
                    /\ UNCHANGED tag
               ELSE /\ tag' = NextTag(tag)
                    /\ pc' = "walk"
                    /\ UNCHANGED <<mmap, visited>>
          /\ UNCHANGED size
  /\ beat' = ~beat
  /\ UNCHANGED <<magic, addr, mem, input, excVars, padVars>>

\* A faulty variant of MmapMore: the loop also runs with the pointer at the end.
MmapMoreInclusive(m, t) == WLeq(m, WAdd(t, TagSize(t)))

\* The test of lines 54-55: mmap < (multiboot_uint8_t *)tag + tag->size.
MmapMore(m, t) == WLess(m, WAdd(t, TagSize(t)))

\* The increment of lines 56-57: (unsigned long)mmap + entry_size.
MmapAdvance(m, t) == WAdd(m, MmapEntrySize(t))

\* The line of lines 58-63 for the entry at m.
MmapLine(m) ==
  <<" base_addr = 0x%x%x, length = 0x%x%x, type = 0x%x\n",
    High32(Read64(m)), Low32(Read64(m)),
    High32(Read64(WAdd(m, W(8)))), Low32(Read64(WAdd(m, W(8)))),
    Read32(WAdd(m, W(16)))>>

\* One pass of the loop of lines 53-63, or its end and the increment of
\* line 20.
MmapStep ==
  /\ pc = "mmap"
  /\ IF ~InMem(tag, 12)
       THEN Stray
     ELSE IF MmapMore(mmap, tag)
       THEN IF ~InMem(mmap, 20)
              THEN Stray
            ELSE /\ out' = Emit(out, <<MmapLine(mmap)>>)
                 /\ visited' = Emit(visited, <<mmap>>)
                 /\ mmap' = MmapAdvance(mmap, tag)
                 /\ UNCHANGED <<pc, size, tag, reads>>
     ELSE /\ tag' = NextTag(tag)
          /\ pc' = "walk"
          /\ UNCHANGED <<size, mmap, out, reads, visited>>
  /\ beat' = ~beat
  /\ UNCHANGED <<magic, addr, mem, input, excVars, padVars>>

\* Lines 68-69, after the loop: the End tag is stepped over and the total
\* printed.  (unsigned) tag - addr, passed to %x, is the distance of tag from
\* addr modulo 2^32.
Finish ==
  /\ pc = "tail"
  /\ tag' = NextTag(tag)
  /\ out' = Emit(out, << <<"Total mbi size 0x%x\n",
                            <<NextTag(tag)[1] % 65536, NextTag(tag)[2]>> >> >>)
  /\ pc' = "done"
  /\ UNCHANGED <<size, mmap, reads, visited>>
  /\ beat' = ~beat
  /\ UNCHANGED <<magic, addr, mem, input, excVars, padVars>>

check_multiboot2 == Entry \/ TagStep \/ MmapStep \/ Finish

BootInWith(in, m, a) ==
  /\ magic = m
  /\ addr = a
  /\ input = in
  /\ mem = InputImage(in)
  /\ pc = "entry"
  /\ size = W(0)
  /\ tag = W(0)
  /\ mmap = W(0)
  /\ out = <<>>
  /\ reads = {}
  /\ visited = <<>>
  /\ beat = FALSE

BootInit == \E in \in Inputs, m \in Magics, a \in Addrs : BootInWith(in, m, a)

\* check_multiboot2 not under study: one fixed input.
BootPinned == BootInWith(Input(<<>>, TRUE, <<>>, W(16)), MULTIBOOT2_BOOTLOADER_MAGIC, 1048576)

--------------------------------------------------------------------------
(* The exception handlers *)

\* The vector numbers of exception.h, as exception.c documents them.
int_de == 0
int_db == 1
int_nmi == 2
int_bp == 3
int_of == 4
int_br == 5
int_ud == 6
int_nm == 7
int_df == 8
int_ts == 10
int_np == 11
int_ss == 12
int_gp == 13
int_pf == 14
int_mf == 16
int_ac == 17
int_mc == 18
int_xm == 19
int_ve == 20
int_cp == 21
int_hv == 28
int_vc == 29
int_sx == 30

\* What exception.c documents above each prologue: the vector, its name,
\* and the prologue written for it.
Descriptors ==
  <<
     [vector |-> 0, name |-> "Division Error", prologue |-> "de_prologue"],
     [vector |-> 1, name |-> "Debug", prologue |-> "db_prologue"],
     [vector |-> 2, name |-> "Non-maskable Interrupt", prologue |-> "nmi_prologue"],
     [vector |-> 3, name |-> "Breakpoint", prologue |-> "bp_prologue"],
     [vector |-> 4, name |-> "Overflow", prologue |-> "of_prologue"],
     [vector |-> 5, name |-> "Bound Range Exceeded", prologue |-> "br_prologue"],
     [vector |-> 6, name |-> "Invalid Opcode", prologue |-> "ud_prologue"],
     [vector |-> 7, name |-> "Device Not Available", prologue |-> "nm_prologue"],
     [vector |-> 8, name |-> "Double Fault", prologue |-> "df_prologue"],
     [vector |-> 10, name |-> "Invalid TSS", prologue |-> "ts_prologue"],
     [vector |-> 11, name |-> "Segment Not Present", prologue |-> "np_prologue"],
     [vector |-> 12, name |-> "Stack-Segment Fault", prologue |-> "ss_prologue"],
     [vector |-> 13, name |-> "General Protection Fault", prologue |-> "gp_prologue"],
     [vector |-> 14, name |-> "Page Fault", prologue |-> "pf_prologue"],
     [vector |-> 16, name |-> "x87 Floating-Point Exception", prologue |-> "mf_prologue"],
     [vector |-> 17, name |-> "Alignment Check", prologue |-> "ac_prologue"],
     [vector |-> 18, name |-> "Machine Check", prologue |-> "mc_prologue"],
     [vector |-> 19, name |-> "SIMD Floating-Point Exception", prologue |-> "xm_prologue"],
     [vector |-> 20, name |-> "Virtualization Exception", prologue |-> "ve_prologue"],
     [vector |-> 21, name |-> "Control Protection Exception", prologue |-> "cp_prologue"],
     [vector |-> 28, name |-> "Hypervisor Injection Exception", prologue |-> "hv_prologue"],
     [vector |-> 29, name |-> "VMM Communication Exception", prologue |-> "vc_prologue"],
     [vector |-> 30, name |-> "Security Exception", prologue |-> "sx_prologue"]
  >>

\* The prologues: each calls panic(message) and returns result.
Prologues ==
  <<
     [prologue |-> "de_prologue", message |-> "Division Error", result |-> FALSE],
     [prologue |-> "db_prologue", message |-> "Debug", result |-> FALSE],
     [prologue |-> "nmi_prologue", message |-> "Non-maskable Interrupt", result |-> FALSE],
     [prologue |-> "bp_prologue", message |-> "Breakpoint", result |-> FALSE],
     [prologue |-> "of_prologue", message |-> "Overflow", result |-> FALSE],
     [prologue |-> "br_prologue", message |-> "Bound Range extended", result |-> FALSE],
     [prologue |-> "ud_prologue", message |-> "Invalid Opcode", result |-> FALSE],
     [prologue |-> "nm_prologue", message |-> "Device Not Available", result |-> FALSE],
     [prologue |-> "df_prologue", message |-> "Double Fault", result |-> FALSE],
     [prologue |-> "ts_prologue", message |-> "Invalid TSS", result |-> FALSE],
     [prologue |-> "np_prologue", message |-> "Segment Not Present", result |-> FALSE],
     [prologue |-> "ss_prologue", message |-> "Stack-Segment Fault", result |-> FALSE],
     [prologue |-> "gp_prologue", message |-> "General Protection Fault", result |-> FALSE],
     [prologue |-> "pf_prologue", message |-> "Page Fault", result |-> FALSE],
     [prologue |-> "mf_prologue", message |-> "x87 Floating-Point Exception", result |-> FALSE],
     [prologue |-> "ac_prologue", message |-> "Alignment Check", result |-> FALSE],
     [prologue |-> "mc_prologue", message |-> "Machine Check", result |-> FALSE],
     [prologue |-> "xm_prologue", message |-> "SIMD Floating-Point Exception", result |-> FALSE],
     [prologue |-> "ve_prologue", message |-> "Virtualization Exception", result |-> FALSE],
     [prologue |-> "cp_prologue", message |-> "Control Protection Exception", result |-> FALSE],
     [prologue |-> "hv_prologue", message |-> "Hypervisor Injection Exception", result |-> FALSE],
     [prologue |-> "vc_prologue", message |-> "VMM Communication Exception", result |-> FALSE],
     [prologue |-> "sx_prologue", message |-> "Security Exception", result |-> FALSE]
  >>

\* Lines 264-286: the vector and the prologue of each plugbox_assign call.
DefaultBindingsCalls ==
  <<
     <<int_de, "de_prologue">>,
     <<int_db, "db_prologue">>,
     <<int_nmi, "nmi_prologue">>,
     <<int_bp, "bp_prologue">>,
     <<int_of, "of_prologue">>,
     <<int_br, "br_prologue">>,
     <<int_ud, "ud_prologue">>,
     <<int_nm, "nm_prologue">>,
     <<int_df, "df_prologue">>,
     <<int_ts, "ts_prologue">>,
     <<int_np, "np_prologue">>,
     <<int_ss, "ss_prologue">>,
     <<int_gp, "gp_prologue">>,
     <<int_pf, "pf_prologue">>,
     <<int_mf, "mf_prologue">>,
     <<int_ac, "ac_prologue">>,
     <<int_mc, "mc_prologue">>,
     <<int_xm, "xm_prologue">>,
     <<int_ve, "ve_prologue">>,
     <<int_cp, "cp_prologue">>,
     <<int_hv, "hv_prologue">>,
     <<int_vc, "vc_prologue">>,
     <<int_sx, "sx_prologue">>
  >>

\* A faulty variant of DefaultBindings: the reserved vector 9 is assigned as well.
DefaultBindingsReserved == DefaultBindingsCalls \o << <<9, "df_prologue">> >>

\* A faulty variant of DefaultBindings: vector 5 gets the prologue of vector 0.
DefaultBindingsCopied ==
  [i \in 1..Len(DefaultBindingsCalls) |->
     IF DefaultBindingsCalls[i][1] = int_br THEN <<int_br, "de_prologue">>
     ELSE DefaultBindingsCalls[i]]

DefaultBindings == DefaultBindingsCalls

NoHandler == [prologue |-> "none", epilogue |-> "none"]

\* new_interrupt_handler(prologue, NULL)
new_interrupt_handler(prologue) == [prologue |-> prologue, epilogue |-> "NULL"]

\* plugbox_assign(vector, handler): the slot is overwritten.
plugbox_assign(box, vector, handler) == [box EXCEPT ![vector] = handler]

RECURSIVE AssignAll(_, _)
AssignAll(box, calls) ==
  IF calls = <<>> THEN box
  ELSE AssignAll(plugbox_assign(box, Head(calls)[1], new_interrupt_handler(Head(calls)[2])),
                 Tail(calls))

Vectors == 0..31

NoDispatch == [vector |-> -1, invoked |-> <<>>, name |-> "", result |-> "none",
               resumable |-> FALSE, halted |-> FALSE]

\* Lines 262-287.
exception_defaults ==
  /\ ~disp.halted
  /\ installs < MaxInstalls
  /\ plugbox' = AssignAll(plugbox, DefaultBindings)
  /\ installs' = installs + 1
  /\ assigned' = assigned \ {DefaultBindings[i][1] : i \in 1..Len(DefaultBindings)}
  /\ disp' = NoDispatch
  /\ UNCHANGED <<bootVars, padVars>>

\* A handler of another caller, which recovers and reports resumable.
OtherHandler == [prologue |-> "other_prologue", epilogue |-> "NULL"]

OtherVectors == {5, 9, 14}

\* Another caller registers its own handler.
AssignOther ==
  /\ ~disp.halted
  /\ \E v \in OtherVectors :
       /\ plugbox' = plugbox_assign(plugbox, v, OtherHandler)
       /\ assigned' = assigned \cup {v}
  /\ disp' = NoDispatch
  /\ UNCHANGED <<installs, bootVars, padVars>>

PrologueOf(name) == CHOOSE i \in 1..Len(Prologues) : Prologues[i].prologue = name

\* panic(message): reports the message and halts.
panic(message) == [name |-> message, halted |-> TRUE]

\* What calling a handler's prologue does: the panic call, and the verdict
\* of the return statement.
Invoke(handler) ==
  IF handler = OtherHandler
    THEN [name |-> "", resumable |-> TRUE, halted |-> FALSE]
  ELSE [name |-> panic(Prologues[PrologueOf(handler.prologue)].message).name,
        resumable |-> Prologues[PrologueOf(handler.prologue)].result,
        halted |-> panic(Prologues[PrologueOf(handler.prologue)].message).halted]

\* The trampoline raises vector v.
Dispatch ==
  /\ ~disp.halted
  /\ \E v \in Vectors :
       disp' = IF plugbox[v] = NoHandler
                 THEN [vector |-> v, invoked |-> <<>>, name |-> "",
                       result |-> "UnhandledVector", resumable |-> FALSE, halted |-> TRUE]
               ELSE [vector |-> v, invoked |-> <<plugbox[v].prologue>>,
                     name |-> Invoke(plugbox[v]).name, result |-> "handled",
                     resumable |-> Invoke(plugbox[v]).resumable,
                     halted |-> Invoke(plugbox[v]).halted]
  /\ UNCHANGED <<plugbox, installs, assigned, bootVars, padVars>>

ExcInit ==
  /\ plugbox = [v \in Vectors |-> NoHandler]
  /\ installs = 0
  /\ assigned = {}
  /\ disp = NoDispatch

--------------------------------------------------------------------------
(* The padding law on its own *)

\* Low halves 0..PadSpan and 65535-PadSpan..65535 of the sizes tried.
PadSpan == 24

PadInputs ==
  { <<hi, lo>> : hi \in {0, 1, 32768, 65535},
                 lo \in (0..PadSpan) \cup ((65535 - PadSpan)..65535) }

NotPadded == <<>>

\* The advance of line 20 for a tag of size padIn.
Pad ==
  /\ padOut = NotPadded
  /\ padOut' = PaddedSize(padIn)
  /\ UNCHANGED <<padIn, bootVars, excVars>>

PadInit == padIn \in PadInputs /\ padOut = NotPadded

PadPinned == padIn = W(0) /\ padOut = NotPadded

--------------------------------------------------------------------------
(* Specifications *)

Init == BootInit /\ ExcInit /\ PadPinned

Next == check_multiboot2

\* check_multiboot2 on every input.
Spec == Init /\ [][Next]_vars

\* The processor keeps executing check_multiboot2 until it returns or halts.
FairSpec == Spec /\ WF_vars(Next)

ExcNext == exception_defaults \/ AssignOther \/ Dispatch

\* The handler registry from empty.
ExcOnlyInit == BootPinned /\ ExcInit /\ PadPinned

ExcSpec == ExcOnlyInit /\ [][ExcNext]_vars

\* The padding computation on every size tried.
PadOnlyInit == BootPinned /\ ExcInit /\ PadInit

PadSpec == PadOnlyInit /\ [][Pad]_vars

--------------------------------------------------------------------------
(* Properties of check_multiboot2 *)

Walking == pc \in {"walk", "mmap", "tail", "done"}

\* C1: while the walk has not failed, the bytes consumed (the distance of
\* the tag pointer from addr) never exceed the total_size read at offset 0,
\* and no tag header is read beyond total_size.
C1_ConsumedWithinTotal ==
  Walking => /\ WLeq(tag, size)
             /\ \A r \in reads : WLeq(r, size)

\* C2: the memory-map entry loop never takes a step that leaves its
\* iteration pointer where it was.
C2_MmapLoopAdvances ==
  [][(pc = "mmap" /\ pc' = "mmap") => mmap' # mmap]_vars

\* C3: with a wrong magic or an addr whose low 3 bits are not all 0, the run
\* halts on a panic and has read neither total_size nor any tag header,
\* whatever the memory holds.
C3_ChecksBeforeReads ==
  (pc # "entry" /\ (magic # 920085129 \/ addr % 8 # 0)) =>
     /\ pc = "halt"
     /\ reads = {}
     /\ Len(out) = 1
     /\ out[1][1] \in {"Invalid magic number: 0x%x\n", "Unaligned mbi: 0x%x\n"}

C3_Witness ==
  /\ pc = "halt"
  /\ magic = 920085129
  /\ addr % 8 = 4
  /\ Len(input.body) = MaxTags

\* The lines a faithful walk of the input prints.
ExpectedLines(in) ==
  << <<"Announced mbi size 0x%x\n", in.declared>> >>
  \o Concat([i \in 1..Len(in.body) |->
               << <<"Tag 0x%x, Size 0x%x\n", in.body[i].type, in.body[i].size>> >>
               \o in.body[i].lines])
  \o << <<"Total mbi size 0x%x\n", in.declared>> >>

IsPrefix(a, b) == Len(a) <= Len(b) /\ a = SubSeq(b, 1, Len(a))

\* C4: on a well-formed stream the walk reports, in stream order, one "Tag"
\* line with type and size per tag before the first End tag, each followed by
\* the payload fields of the tag as encoded (a tag of unrecognized type by
\* nothing more), and reads no tag header after the End tag.
C4_RecordsMatchEncoding ==
  (WellFormed(input) /\ magic = 920085129 /\ addr % 8 = 0) =>
     /\ pc \in {"entry", "walk", "mmap", "tail", "done"}
     /\ IsPrefix(out, Emit(<<>>, ExpectedLines(input)))
     /\ pc = "done" => out = Emit(<<>>, ExpectedLines(input))
     /\ \A r \in reads : WLess(r, input.declared)

C4_Witness ==
  /\ WellFormed(input)
  /\ pc = "done"
  /\ input.trailer # <<>>
  /\ Len(input.body) = 2
  /\ input.body[1] = OpaqueTag(21, <<1, 2, 3, 4>>)
  /\ input.body[2] = MmapTag(24, <<Entry1, Entry2>>)
  /\ Len(out) = 7

\* The tag at the tag pointer is a memory map of n >= 0 entries at a stride
\* of e > 0 bytes: tag.size = 16 + n * e.
MapEntries(t) ==
  LET s == TagSize(t)
      e == MmapEntrySize(t)
  IN  IF s[1] = 0 /\ e[1] = 0 /\ e[2] > 0 /\ s[2] >= 16 /\ (s[2] - 16) % e[2] = 0
      THEN (s[2] - 16) \div e[2] ELSE -1

\* C6: in a memory map of N entries at stride E > 0, the i-th entry visited
\* lies 16 + i*E bytes from the tag start, no entry is visited at or beyond
\* the tag's end, and the loop ends having visited exactly N.
C6_MmapVisitsEachEntry ==
  /\ [](pc = "mmap" /\ MapEntries(tag) >= 0 =>
          /\ Len(visited) <= MapEntries(tag)
          /\ \A i \in 1..Len(visited) :
               /\ visited[i] = WAdd(tag, W(16 + (i - 1) * MmapEntrySize(tag)[2]))
               /\ WLess(visited[i], WAdd(tag, TagSize(tag)))
          /\ mmap = WAdd(tag, W(16 + Len(visited) * MmapEntrySize(tag)[2])))
  /\ [][(pc = "mmap" /\ MapEntries(tag) >= 0) =>
          /\ pc' \in {"mmap", "walk"}
          /\ pc' = "walk" => (Len(visited) = MapEntries(tag) /\ visited' = visited)
          /\ pc' = "mmap" => Len(visited') = Len(visited) + 1]_vars

C6_Witness ==
  /\ pc = "walk"
  /\ Len(visited) = 2
  /\ visited[2] = WAdd(visited[1], W(24))

\* C10: the walk ends: it returns, halts on a panic, or leaves the modelled
\* memory (what it does there is not modelled and counts as an end here).
C10_WalkTerminates == <>(pc \in {"done", "halt", "stray"})

--------------------------------------------------------------------------
(* The padding law *)

\* The smallest multiple of 8 that is >= s, without wrap.
RoundUp8(s) == IF s[2] % 8 = 0 THEN s ELSE WAdd(s, W(8 - (s[2] % 8)))

\* C5: for every u32 size the advance is round_up(size, 8) and is never
\* smaller than the size.
C5_PaddingLaw ==
  padOut # NotPadded => (padOut = RoundUp8(padIn) /\ WLeq(padIn, padOut))

--------------------------------------------------------------------------
(* Properties of the exception handlers *)

Defined23 == (0..8) \cup (10..14) \cup (16..21) \cup (28..30)

DescriptorOf(v) == Descriptors[CHOOSE i \in 1..Len(Descriptors) : Descriptors[i].vector = v]

\* C7: after exception_defaults, dispatching a defined vector invokes exactly
\* one handler, the one written for the vector; it reports the documented
\* name of the vector and the verdict is not resumable.
C7_DefaultDispatch ==
  (disp.result # "none" /\ installs >= 1 /\ disp.vector \in Defined23
     /\ disp.vector \notin assigned) =>
     /\ disp.result = "handled"
     /\ disp.invoked = <<DescriptorOf(disp.vector).prologue>>
     /\ disp.name = DescriptorOf(disp.vector).name
     /\ disp.resumable = FALSE

\* C8: whatever the number of exception_defaults calls, a vector outside the
\* 23 defined ones that no other caller assigned has no handler, and a
\* dispatch on it ends in UnhandledVector with no handler invoked.
C8_ReservedStayUnbound ==
  \A v \in Vectors \ Defined23 :
     v \notin assigned =>
        /\ plugbox[v] = NoHandler
        /\ disp.vector = v => (/\ disp.result = "UnhandledVector"
                               /\ disp.invoked = <<>>
                               /\ disp.halted)

C8_Witness ==
  /\ installs = MaxInstalls
  /\ disp.vector = 9
  /\ disp.result = "UnhandledVector"

\* C9: exception_defaults binds each of the 23 defined vectors to the handler
\* written for it and leaves every other vector's binding as it was; called
\* again on its own result it changes nothing.
C9_DefaultsIdempotent ==
  [][exception_defaults =>
       /\ \A v \in Defined23 :
            plugbox'[v] = [prologue |-> DescriptorOf(v).prologue, epilogue |-> "NULL"]
       /\ \A v \in Vectors \ Defined23 : plugbox'[v] = plugbox[v]
       /\ (installs >= 1 /\ assigned \cap Defined23 = {}) => plugbox' = plugbox]_vars

C9_Witness ==
  /\ installs = 2
  /\ 9 \in assigned
  /\ plugbox[9] = OtherHandler
  /\ plugbox[5] = [prologue |-> "br_prologue", epilogue |-> "NULL"]

====
